---- MODULE Spec2Model ----
(***************************************************************************)
(* Two standalone scripts of the repository:                               *)
(*   test_medical_ai.py     the endpoint smoke test (SmokeSpec)            *)
(*   analyze_knowledge.py   the knowledge base report (ReportSpec)         *)
(* Each script is a sequential program; pc is its position, out is what it *)
(* has written to standard output.                                         *)
(***************************************************************************)
EXTENDS Integers, Sequences, FiniteSets, TLC

VARIABLES
    pc,           \* position of the running script
    out,          \* standard output: the sequence of printed lines
    \* ---- test_medical_ai.py
    i,            \* enumerate(test_cases, 1) index of the current case
    response,     \* value returned by requests.post for the current case
    raised,       \* exception in flight (class name), "" when none
    results,      \* the results list
    posts,        \* requests issued so far (text of each POST), in order
    replies,      \* what the endpoint answered to each request, in order
    passed,       \* the summary's numerator, -1 until computed
    \* ---- analyze_knowledge.py
    kb,           \* json.load(f)
    discoveries,  \* kb.get('discoveries', [])
    statuses,     \* Counter(d['status'] for d in discoveries)
    latest        \* position of the latest-discoveries loop

vars == <<pc, out, i, response, raised, results, posts, replies,
          passed, kb, discoveries, statuses, latest>>

smokeVars == <<i, response, raised, results, posts, replies, passed>>
reportVars == <<kb, discoveries, statuses, latest>>

\* A printed line.  kind names the print statement, the other fields carry
\* the values it formats (0 / "" when the statement formats none).
Line(kind, idx, text, status, num) ==
    [kind |-> kind, idx |-> idx, text |-> text, status |-> status, num |-> num]

Min(a, b) == IF a < b THEN a ELSE b
Max(a, b) == IF a > b THEN a ELSE b

(***************************************************************************)
(*                       test_medical_ai.py                                *)
(***************************************************************************)

test_cases == <<
    [name |-> "Cardiac Emergency",  text |-> "Severe chest pain, shortness of breath, sweating, pain radiating to jaw", expected |-> "cardiac"],
    [name |-> "Stroke Symptoms",    text |-> "Sudden facial drooping, arm weakness, speech difficulty, confusion", expected |-> "neurological"],
    [name |-> "Appendicitis",       text |-> "Right lower quadrant pain, nausea, vomiting, fever, rebound tenderness", expected |-> "gastrointestinal"],
    [name |-> "Pneumonia",          text |-> "High fever, productive cough, chest pain on breathing, fatigue", expected |-> "respiratory"],
    [name |-> "Diabetic Emergency", text |-> "Excessive thirst, frequent urination, blurred vision, fruity breath odor", expected |-> "endocrine"] >>

PASS == "PASS"
FAIL == "FAIL"
ERROR == "ERROR"

\* Exceptions requests.post raises: connection refused, timeout.
TransportErrors == {"ConnectionError", "Timeout"}

\* Status codes the endpoint answers with.
StatusCodes == {200, 404, 500}

\* Values of analysis.condition the endpoint answers with.
Conditions == {"cardiac", "respiratory"}

\* Keys of the analysis object.
AnalysisKeys == {"condition", "urgency", "recommendations"}

\* Response bodies.  json = FALSE: the body is not JSON.  keys: the keys
\* present ("analysis" at the top level, the others under it).
NotJson == [json |-> FALSE, keys |-> {}, condition |-> ""]
NoBody == [json |-> TRUE, keys |-> {}, condition |-> ""]
JsonBodies ==
    { [json |-> TRUE, keys |-> {"analysis"} \cup ks, condition |-> c] :
        ks \in SUBSET AnalysisKeys, c \in Conditions \cup {""} }
Bodies ==
    {NotJson, NoBody} \cup
    { b \in JsonBodies : ("condition" \in b.keys) = (b.condition # "") }

NoResponse == [status_code |-> 0, body |-> NoBody]
Responses ==
    { [status_code |-> 200, body |-> b] : b \in Bodies } \cup
    { [status_code |-> c, body |-> NotJson] : c \in StatusCodes \ {200} }

Complete(b) == b.json /\ b.keys = {"analysis"} \cup AnalysisKeys

\* What the endpoint did with a request: one of the four outcomes of a case,
\* and the condition it reported.
Kind(exc, r) ==
    [kind |-> IF exc # "" THEN "exception"
              ELSE IF r.status_code # 200 THEN "non200"
              ELSE IF Complete(r.body) THEN "complete"
              ELSE "incomplete",
     condition |-> IF exc = "" /\ r.status_code = 200 /\ Complete(r.body)
                   THEN r.body.condition ELSE ""]

\* A try statement that guarded the call of requests.post alone.
InTryRequestOnly(line) == line \in 45..49

\* The lines of the for body the try statement guards (try: at line 44,
\* except Exception at line 62).
InTry(line) == line \in 45..60

\* An exception raised at `line`: handled by the except clause when the line
\* is inside the try block, otherwise it propagates and ends the script.
Raise(line, exc) ==
    /\ raised' = exc
    /\ pc' = IF InTry(line) THEN "except" ELSE "aborted"

\* A status that compared the reported condition with the expected label.
PassOnlyIfExpected(case, res) == IF res.condition = case.expected THEN PASS ELSE FAIL

\* The status line 57 records for a case whose response passed every lookup.
PassStatus(case, res) == PASS

\* A handler that left the loop (break), and one that repeated the request.
ExceptBreaks == "summary"
ExceptRetries == "post"

\* Where the except clause goes on: it neither breaks nor retries, the for
\* statement takes the next case.
ExceptNext == "for"

\* result['analysis'][key] raises KeyError when either key is absent.
Lookup(body, key) == "analysis" \in body.keys /\ key \in body.keys

SmokeIdle ==
    /\ i = 0 /\ response = NoResponse /\ raised = ""
    /\ results = <<>> /\ posts = <<>> /\ replies = <<>> /\ passed = -1

ReportIdle ==
    /\ kb = [has |-> FALSE, discoveries |-> <<>>]
    /\ discoveries = <<>> /\ statuses = <<>> /\ latest = 0

\* lines 34-39: banner, results = []
SmokeInit ==
    /\ pc = "for"
    /\ out = <<Line("banner", 0, "", "", 0)>>
    /\ SmokeIdle
    /\ ReportIdle

\* lines 40-42: next case of the for loop and its progress lines; the loop
\* ends after the last case.
ForNext ==
    /\ pc = "for"
    /\ IF i < Len(test_cases)
       THEN /\ i' = i + 1
            /\ out' = Append(out, Line("test", i + 1, test_cases[i + 1].name, "", Len(test_cases)))
            /\ pc' = "post"
       ELSE /\ pc' = "summary"
            /\ UNCHANGED <<i, out>>
    /\ UNCHANGED <<response, raised, results, posts, replies, passed, reportVars>>

\* The end of a case's iteration.  response keeps its value in the script
\* but nothing reads it before the next case assigns it, so the model
\* forgets it here.
EndCase ==
    /\ response' = NoResponse
    /\ pc' = "for"

\* lines 45-49: requests.post(...).  The endpoint either answers or the call
\* raises a transport error.
Post ==
    /\ pc = "post"
    /\ posts' = Append(posts, test_cases[i].text)
    /\ \/ \E exc \in TransportErrors :
            /\ Raise(45, exc)
            /\ replies' = Append(replies, Kind(exc, NoResponse))
            /\ UNCHANGED response
       \/ \E r \in Responses :
            /\ response' = r
            /\ replies' = Append(replies, Kind("", r))
            /\ pc' = "check"
            /\ UNCHANGED raised
    /\ UNCHANGED <<out, i, results, passed, reportVars>>

\* line 51 and the else branch, lines 59-60
ElseBranch ==
    /\ pc = "check"
    /\ response.status_code # 200
    /\ out' = Append(out, Line("failed", 0, "", "", 0))
    /\ results' = Append(results, [case |-> test_cases[i].name, status |-> FAIL])
    /\ EndCase
    /\ UNCHANGED <<i, raised, posts, replies, passed, reportVars>>

\* The statements of the if branch that can raise, in order: line 52 parses
\* the body into result, lines 54-56 look a key up under result['analysis'].  ok: the
\* statement does not raise on `body`; prints: the line it prints.
IfBranchSteps(body) == <<
    [line |-> 52, ok |-> body.json, exc |-> "JSONDecodeError", prints |-> <<>>],
    [line |-> 53, ok |-> TRUE, exc |-> "", prints |-> <<Line("success", 0, "", "", 0)>>],
    [line |-> 54, ok |-> Lookup(body, "condition"), exc |-> "KeyError",
     prints |-> <<Line("condition", 0, "", "", 0)>>],
    [line |-> 55, ok |-> Lookup(body, "urgency"), exc |-> "KeyError",
     prints |-> <<Line("urgency", 0, "", "", 0)>>],
    [line |-> 56, ok |-> Lookup(body, "recommendations"), exc |-> "KeyError",
     prints |-> <<Line("recommendations", 0, "", "", 0)>> ] >>

\* The steps that run: all of them, or those up to the first that raises.
RECURSIVE Ran(_)
Ran(steps) ==
    IF steps = <<>> THEN <<>>
    ELSE IF ~steps[1].ok THEN <<steps[1]>>
    ELSE <<steps[1]>> \o Ran(Tail(steps))

RECURSIVE PrintsOf(_)
PrintsOf(steps) ==
    IF steps = <<>> THEN <<>>
    ELSE (IF steps[1].ok THEN steps[1].prints ELSE <<>>) \o PrintsOf(Tail(steps))

\* line 51 and the if branch, lines 52-57
IfBranch ==
    /\ pc = "check"
    /\ response.status_code = 200
    /\ LET ran == Ran(IfBranchSteps(response.body))
           last == ran[Len(ran)] IN
       /\ out' = out \o PrintsOf(ran)
       /\ IF last.ok
          THEN /\ results' = Append(results,
                      [case |-> test_cases[i].name,
                       status |-> PassStatus(test_cases[i], response.body)])
               /\ EndCase
               /\ UNCHANGED raised
          ELSE /\ Raise(last.line, last.exc)
               /\ UNCHANGED <<response, results>>
    /\ UNCHANGED <<i, posts, replies, passed, reportVars>>

\* lines 62-64: except Exception as e
Except ==
    /\ pc = "except"
    /\ out' = Append(out, Line("error", 0, "", "", 0))
    /\ results' = Append(results, [case |-> test_cases[i].name, status |-> ERROR])
    /\ raised' = ""
    /\ response' = NoResponse
    /\ pc' = ExceptNext
    /\ UNCHANGED <<i, posts, replies, passed, reportVars>>

\* lines 66-70: the summary header, then for result in results: print its
\* status and case
PrintResults ==
    /\ pc = "summary"
    /\ out' = out \o <<Line("summary", 0, "", "", 0)>>
                  \o [k \in 1..Len(results) |->
                        Line("result", 0, results[k].case, results[k].status, 0)]
    /\ pc' = "passed"
    /\ UNCHANGED <<smokeVars, reportVars>>

\* A count of everything that is not a FAIL.
CountNotFail(rs) == Cardinality({k \in 1..Len(rs) : rs[k].status # FAIL})

\* sum(1 for r in results if "PASS" in r['status'])
CountPass(rs) == Cardinality({k \in 1..Len(rs) : rs[k].status = PASS})

\* lines 72-74
PrintPassed ==
    /\ pc = "passed"
    /\ passed' = CountPass(results)
    /\ out' = Append(out, Line("passed", Len(test_cases), "", "", CountPass(results)))
    /\ pc' = "done"
    /\ UNCHANGED <<i, response, raised, results, posts, replies, reportVars>>

SmokeNext ==
    \/ ForNext
    \/ Post
    \/ ElseBranch
    \/ IfBranch
    \/ Except
    \/ PrintResults
    \/ PrintPassed

SmokeSpec == SmokeInit /\ [][SmokeNext]_vars

\* The script is one sequential process that the interpreter keeps running:
\* a step that can be taken is taken.
FairSmokeSpec == SmokeSpec /\ WF_vars(SmokeNext)


(***************************************************************************)
(*                       analyze_knowledge.py                              *)
(***************************************************************************)

\* Longest discoveries list of a knowledge base of the model.
MaxN == 6

\* discoveries[-5:]
LatestCount == 5

DiscoveryKeys == {"title", "confidence", "status", "timestamp"}

\* The status and confidence (in thousandths) of the records of the model.
Pool == { [status |-> "verified", confidence |-> 900],
          [status |-> "pending",  confidence |-> 600],
          [status |-> "verified", confidence |-> 600] }

\* A discovery record.  keys: the keys the JSON object has.  The k-th record
\* of a file has title k and timestamp k, so that records are told apart.
Discovery(k, p, missing) ==
    [keys |-> DiscoveryKeys \ missing,
     title |-> k, timestamp |-> k,
     status |-> p.status, confidence |-> p.confidence]

\* A file with a discoveries list: record k is drawn from ps[k], and record
\* bad[1], when there is one, lacks the key bad[2].
KnowledgeBase(n, ps, bad) ==
    [has |-> TRUE,
     discoveries |-> [k \in 1..n |->
                        Discovery(k, ps[k], IF k = bad[1] THEN {bad[2]} ELSE {})]]

\* lines 6-12: json.load, header.  The files of the model: no discoveries
\* key, or a list of up to MaxN records of which at most one lacks one key.
ReportInit ==
    /\ pc = "get"
    /\ out = <<Line("header", 0, "", "", 0)>>
    /\ \/ kb = [has |-> FALSE, discoveries |-> <<>>]
       \/ \E n \in 0..MaxN :
            \E ps \in [1..n -> Pool] :
                \E bad \in {<<0, "">>} \cup ((1..n) \X DiscoveryKeys) :
                    kb = KnowledgeBase(n, ps, bad)
    /\ discoveries = <<>> /\ statuses = <<>> /\ latest = 0
    /\ SmokeIdle

\* A get whose default is a list of one record.
KbGetDefaultsToRecord(k) ==
    IF k.has THEN k.discoveries ELSE <<Discovery(1, CHOOSE p \in Pool : TRUE, {})>>

\* kb.get('discoveries', [])
KbGet(k) == IF k.has THEN k.discoveries ELSE <<>>

\* A lookup that never raises (d.get(key)).
HasKeyAlways(d, key) == TRUE

\* d[key] raises KeyError when the record has no such key.
HasKey(d, key) == key \in d.keys

\* A test for more than one element.
TruthyMoreThanOne(seq) == Len(seq) > 1

\* `if discoveries:` -- a list is true when it is not empty.
Truthy(seq) == Len(seq) > 0

\* seq[:n]
FirstN(seq, n) == SubSeq(seq, 1, Min(Len(seq), n))

\* seq[-n:]
LastN(seq, n) == SubSeq(seq, Max(1, Len(seq) - n + 1), Len(seq))

\* No try statement in the script: an exception ends it with a traceback.
Abort(exc) ==
    /\ raised' = exc
    /\ pc' = "aborted"

\* lines 14-15
GetDiscoveries ==
    /\ pc = "get"
    /\ discoveries' = KbGet(kb)
    /\ out' = Append(out, Line("total", 0, "", "", Len(KbGet(kb))))
    /\ pc' = "if"
    /\ UNCHANGED <<smokeVars, kb, statuses, latest>>

\* line 17
IfDiscoveries ==
    /\ pc = "if"
    /\ pc' = IF Truthy(discoveries) THEN "confidence" ELSE "footer"
    /\ UNCHANGED <<out, smokeVars, reportVars>>

RECURSIVE Sum(_)
Sum(seq) == IF seq = <<>> THEN 0 ELSE seq[1] + Sum(Tail(seq))

\* f"{x:.1%}": x in thousandths, to the nearest thousandth.
Percent(total, n) == (2 * total + n) \div (2 * n)

\* lines 19-21
AverageConfidence ==
    /\ pc = "confidence"
    /\ IF \A k \in 1..Len(discoveries) : HasKey(discoveries[k], "confidence")
       THEN LET confidences == [k \in 1..Len(discoveries) |-> discoveries[k].confidence] IN
            /\ out' = Append(out, Line("average", 0, "", "",
                                       Percent(Sum(confidences), Len(confidences))))
            /\ pc' = "counter"
            /\ UNCHANGED raised
       ELSE /\ Abort("KeyError")
            /\ UNCHANGED out
    /\ UNCHANGED <<i, response, results, posts, replies, passed, reportVars>>

\* A count that adds an entry for every element.
CountAppends(c, s) == Append(c, [status |-> s, count |-> 1])

\* Counter: one entry per distinct element, in order of first occurrence.
CountOne(c, s) ==
    IF \E k \in 1..Len(c) : c[k].status = s
    THEN [k \in 1..Len(c) |-> IF c[k].status = s
                              THEN [c[k] EXCEPT !.count = @ + 1] ELSE c[k]]
    ELSE Append(c, [status |-> s, count |-> 1])

RECURSIVE Counter(_)
Counter(seq) ==
    IF seq = <<>> THEN <<>>
    ELSE CountOne(Counter(SubSeq(seq, 1, Len(seq) - 1)), seq[Len(seq)])

\* lines 24-25
StatusBreakdown ==
    /\ pc = "counter"
    /\ IF \A k \in 1..Len(discoveries) : HasKey(discoveries[k], "status")
       THEN /\ statuses' = Counter([k \in 1..Len(discoveries) |-> discoveries[k].status])
            /\ out' = Append(out, Line("breakdown", 0, "", "", 0))
            /\ pc' = "statuses"
            /\ UNCHANGED raised
       ELSE /\ Abort("KeyError")
            /\ UNCHANGED <<out, statuses>>
    /\ UNCHANGED <<i, response, results, posts, replies, passed, kb, discoveries, latest>>

\* Status lines printed so far.
StatusLines == SelectSeq(out, LAMBDA l : l.kind = "status")

\* lines 26-27: for status, count in statuses.items()
StatusLine ==
    /\ pc = "statuses"
    /\ LET k == Len(StatusLines) + 1 IN
       IF k <= Len(statuses)
       THEN /\ out' = Append(out, Line("status", 0, "", statuses[k].status, statuses[k].count))
            /\ pc' = "statuses"
       ELSE /\ pc' = "latest"
            /\ UNCHANGED out
    /\ UNCHANGED <<smokeVars, reportVars>>

\* line 30
LatestHeader ==
    /\ pc = "latest"
    /\ out' = Append(out, Line("latest", 0, "", "", 0))
    /\ pc' = "entries"
    /\ UNCHANGED <<smokeVars, reportVars>>

\* The four prints of an entry (lines 32-35), in order: the key each reads
\* and the line it prints.
EntryPrints(n, d) == <<
    [key |-> "title",      line |-> Line("title", n, "", "", d.title)],
    [key |-> "confidence", line |-> Line("confidence", n, "", "", d.confidence)],
    [key |-> "status",     line |-> Line("entry_status", n, "", d.status, 0)],
    [key |-> "timestamp",  line |-> Line("time", n, "", "", d.timestamp)] >>

\* The prints that run before the first one whose key is missing.
RECURSIVE Printed(_, _)
Printed(d, prints) ==
    IF prints = <<>> \/ ~HasKey(d, prints[1].key) THEN <<>>
    ELSE <<prints[1].line>> \o Printed(d, Tail(prints))

\* lines 31-35: for i, disc in enumerate(discoveries[-5:], 1)
LatestEntry ==
    /\ pc = "entries"
    /\ LET shown == LastN(discoveries, LatestCount) IN
       IF latest < Len(shown)
       THEN LET prints == EntryPrints(latest + 1, shown[latest + 1])
                done == Printed(shown[latest + 1], prints) IN
            /\ latest' = latest + 1
            /\ out' = out \o done
            /\ IF Len(done) = Len(prints)
               THEN pc' = "entries" /\ UNCHANGED raised
               ELSE Abort("KeyError")
       ELSE /\ pc' = "footer"
            /\ UNCHANGED <<out, latest, raised>>
    /\ UNCHANGED <<i, response, results, posts, replies, passed, kb, discoveries, statuses>>

\* line 37
Footer ==
    /\ pc = "footer"
    /\ out' = Append(out, Line("footer", 0, "", "", 0))
    /\ pc' = "done"
    /\ UNCHANGED <<smokeVars, reportVars>>

ReportNext ==
    \/ GetDiscoveries
    \/ IfDiscoveries
    \/ AverageConfidence
    \/ StatusBreakdown
    \/ StatusLine
    \/ LatestHeader
    \/ LatestEntry
    \/ Footer

ReportSpec == ReportInit /\ [][ReportNext]_vars

(***************************************************************************)
(*                 Properties of test_medical_ai.py                        *)
(***************************************************************************)

CaseNumbers == 1..Len(test_cases)
Recorded == 1..Len(results)
AfterLoop == {"summary", "passed", "done"}

\* Lines of the summary printed so far.
SummaryLines == SelectSeq(out, LAMBDA l : l.kind = "result")

\* C1: the status recorded for a case is decided by what its one request
\* returned: a transport exception gives ERROR, a status code other than 200
\* gives FAIL, a 200 whose body has analysis.condition, analysis.urgency and
\* analysis.recommendations gives PASS -- whether or not the condition the
\* endpoint reports is the case's expected label.
C1_StatusFromOutcome ==
    \A k \in Recorded :
        /\ replies[k].kind = "exception" => results[k].status = "ERROR"
        /\ replies[k].kind = "non200" => results[k].status = "FAIL"
        /\ replies[k].kind = "complete" => results[k].status = "PASS"

\* A run with a PASS for a condition that is not the expected label, a PASS
\* for one that is, an ERROR from an exception and a FAIL from a non-200.
C1_Witness ==
    /\ \E k \in Recorded : results[k].status = "PASS" /\ replies[k].condition # test_cases[k].expected
    /\ \E k \in Recorded : results[k].status = "PASS" /\ replies[k].condition = test_cases[k].expected
    /\ \E k \in Recorded : results[k].status = "ERROR" /\ replies[k].kind = "exception"
    /\ \E k \in Recorded : results[k].status = "FAIL" /\ replies[k].kind = "non200"

\* C2: when the run reaches the end of the summary, results holds exactly
\* one entry for each of the 5 cases, the numerator printed is the number of
\* PASS entries and the denominator is 5 -- for every combination of
\* outcomes of the cases.
C2_OneResultPerCase ==
    pc = "done" =>
        /\ Len(results) = 5
        /\ \A k \in CaseNumbers :
              Cardinality({j \in Recorded : results[j].case = test_cases[k].name}) = 1
        /\ passed = Cardinality({j \in Recorded : results[j].status = "PASS"})
        /\ out[Len(out)].kind = "passed"
        /\ out[Len(out)].num = passed
        /\ out[Len(out)].idx = 5

\* A finished run in which all four outcomes occurred.
C2_Witness ==
    /\ pc = "done"
    /\ {replies[k].kind : k \in 1..Len(replies)} = {"exception", "non200", "complete", "incomplete"}
    /\ passed = 2

\* C3: no exception of a case ends the run: the script never aborts, once
\* the result of case k < 5 is recorded the loop goes on to case k+1, and
\* the run reaches the end of the summary.
C3_RunContinues ==
    /\ [](pc # "aborted")
    /\ [][results' # results => (pc' = "for" /\ i' = i /\ Len(results') = i)]_vars
    /\ [][(pc = "for" /\ i < 5) => i' = i + 1]_vars
    /\ <>(pc = "done" /\ i = 5)

\* A finished run whose first and last cases raised in requests.post.
C3_Witness ==
    /\ pc = "done"
    /\ replies[1].kind = "exception" /\ results[1].status = "ERROR"
    /\ replies[5].kind = "exception" /\ results[5].status = "ERROR"

\* C4 as claimed: a 200 response without the analysis keys ends the run: no
\* result is recorded for that case or a later one and no summary is printed.
C4_IncompleteAborts ==
    \A k \in 1..Len(replies) :
        replies[k].kind = "incomplete" => (Len(results) < k /\ pc \notin AfterLoop)

\* C4 as amended: a 200 response without the analysis keys (or with a body
\* that is not JSON) raises inside the try block: the case is recorded as
\* ERROR, the script does not abort, and the run goes on to the summary.
C4_IncompleteIsError ==
    /\ [](pc # "aborted")
    /\ [](\A k \in Recorded :
            replies[k].kind = "incomplete" =>
                results[k] = [case |-> test_cases[k].name, status |-> "ERROR"])
    /\ (\E k \in 1..Len(replies) : replies[k].kind = "incomplete")
          ~> (pc = "done" /\ Len(results) = 5)

\* A finished run whose first case got a 200 without the analysis keys and
\* whose later cases passed.
C4_Witness ==
    /\ pc = "done"
    /\ replies[1].kind = "incomplete" /\ results[1].status = "ERROR"
    /\ \A k \in 2..5 : results[k].status = "PASS"

\* C9: the cases are processed in listed order with exactly one POST each:
\* the requests issued are those of the first cases, in order, without
\* repetition; a request is issued only when the results of all earlier cases
\* are recorded; the k-th result and the k-th summary line carry the name of
\* the k-th case.
C9_OnePostPerCaseInOrder ==
    /\ Len(posts) <= 5
    /\ posts = [k \in 1..Len(posts) |-> test_cases[k].text]
    /\ Len(posts) = IF pc = "post" THEN i - 1 ELSE i
    /\ Len(results) = IF pc \in {"for"} \cup AfterLoop THEN i ELSE i - 1
    /\ \A k \in Recorded : results[k].case = test_cases[k].name
    /\ Len(SummaryLines) <= Len(results)
    /\ \A k \in 1..Len(SummaryLines) :
          /\ SummaryLines[k].text = test_cases[k].name
          /\ SummaryLines[k].status = results[k].status
    /\ pc \in AfterLoop => Len(posts) = 5
    /\ pc \in {"passed", "done"} => Len(SummaryLines) = 5
    /\ pc # "aborted"

\* A finished run with a FAIL followed by an ERROR, neither requested again.
C9_Witness ==
    /\ pc = "done"
    /\ Len(posts) = 5
    /\ results[2].status = "FAIL"
    /\ results[3].status = "ERROR"

(***************************************************************************)
(*                 Properties of analyze_knowledge.py                      *)
(***************************************************************************)

\* The records of the file, and how many there are.
Records == kb.discoveries
N == Len(kb.discoveries)

\* The kinds of line printed so far.
OutKinds == {out[k].kind : k \in 1..Len(out)}
Sections == {"average", "breakdown", "latest"}
OutOf(kind) == SelectSeq(out, LAMBDA l : l.kind = kind)

\* The report of a file without discoveries.
EmptyReport ==
    << [kind |-> "header", idx |-> 0, text |-> "", status |-> "", num |-> 0],
       [kind |-> "total",  idx |-> 0, text |-> "", status |-> "", num |-> 0],
       [kind |-> "footer", idx |-> 0, text |-> "", status |-> "", num |-> 0] >>

\* The report reads confidence and status of every record, title and
\* timestamp of the last 5 only.
Reads(k, key) == key \in {"confidence", "status"} \/ k > N - 5
MissingRead == \E k \in 1..N : \E key \in DiscoveryKeys : Reads(k, key) /\ key \notin Records[k].keys
WellFormed == \A k \in 1..N : Records[k].keys = DiscoveryKeys
Ended == pc \in {"done", "aborted"}

\* C5 as claimed: with 0 discoveries the report is the header, the total 0
\* and the footer, with none of the three sections; with N >= 1 discoveries,
\* whatever they are, all three sections are printed.
C5_SectionsForAnyRecords ==
    kb.has =>
        /\ (N = 0 /\ pc = "done") => out = EmptyReport
        /\ (N >= 1 /\ Ended) => Sections \subseteq OutKinds

\* C5 as amended: with 0 discoveries the report is the header, the total 0
\* and the footer, and no section is ever printed; with N >= 1 discoveries
\* that have every key the report reads from them, the report completes with
\* all three sections.
C5_SectionsIffDiscoveries ==
    kb.has =>
        /\ N = 0 => /\ OutKinds \cap Sections = {}
                    /\ pc # "aborted"
                    /\ pc = "done" => out = EmptyReport
        /\ (N >= 1 /\ ~MissingRead) =>
                    /\ pc # "aborted"
                    /\ pc = "done" => /\ Sections \subseteq OutKinds
                                      /\ OutOf("total")[1].num = N
                                      /\ out[Len(out)].kind = "footer"

\* A completed report of more than 5 records, with all three sections, whose
\* first record has no title.
C5_Witness ==
    /\ pc = "done"
    /\ N > 5
    /\ "title" \notin Records[1].keys
    /\ Sections \subseteq OutKinds

\* C6: for N >= 1 well-formed discoveries the Latest section has min(N, 5)
\* entries: entry j is numbered j and shows title, confidence, status and
\* timestamp of record N - min(N, 5) + j, so the entries are the last
\* min(N, 5) records in their order in the file.
C6_LatestEntries ==
    (kb.has /\ N >= 1 /\ WellFormed /\ pc = "done") =>
        LET m == IF N < 5 THEN N ELSE 5 IN
        /\ Len(OutOf("title")) = m
        /\ Len(OutOf("confidence")) = m
        /\ Len(OutOf("entry_status")) = m
        /\ Len(OutOf("time")) = m
        /\ \A j \in 1..m :
              /\ OutOf("title")[j].idx = j
              /\ OutOf("title")[j].num = Records[N - m + j].title
              /\ OutOf("confidence")[j].idx = j
              /\ OutOf("confidence")[j].num = Records[N - m + j].confidence
              /\ OutOf("entry_status")[j].idx = j
              /\ OutOf("entry_status")[j].status = Records[N - m + j].status
              /\ OutOf("time")[j].idx = j
              /\ OutOf("time")[j].num = Records[N - m + j].timestamp

\* A completed report of more than 5 well-formed records.
C6_Witness ==
    /\ pc = "done"
    /\ N > 5
    /\ WellFormed
    /\ Len(OutOf("title")) = 5
    /\ OutOf("title")[1].num = Records[N - 4].title

\* C7 as claimed: a record without one of the four keys, whatever its
\* position, keeps the report from completing.
C7_AnyMissingKeyIsFatal ==
    (kb.has /\ ~WellFormed) => pc # "done"

\* C7 as amended: a record without confidence or status, or one of the last
\* 5 records without title or timestamp, ends the report with a KeyError
\* before the footer; a missing title or timestamp of an earlier record is
\* never read and the report does not abort on it.
C7_MissingReadKeyIsFatal ==
    kb.has =>
        /\ MissingRead => (pc # "done" /\ "footer" \notin OutKinds)
        /\ pc = "aborted" => (MissingRead /\ raised = "KeyError")

\* A report aborted on the missing timestamp of its last record, after the
\* first three lines of that entry.
C7_Witness ==
    /\ pc = "aborted"
    /\ N >= 2
    /\ "timestamp" \notin Records[N].keys
    /\ Len(OutOf("entry_status")) = Len(OutOf("time")) + 1

\* C8: once the Status Breakdown is printed, each status that occurs among
\* the N >= 1 records has exactly one line, its count is the number of
\* records with that status, no other status is printed, and the counts add
\* up to N.
C8_StatusBreakdown ==
    (kb.has /\ N >= 1 /\ pc \in {"latest", "entries", "footer", "done"}) =>
        LET lines == OutOf("status")
            occurring == {Records[k].status : k \in 1..N} IN
        /\ \A s \in occurring :
              /\ Cardinality({j \in 1..Len(lines) : lines[j].status = s}) = 1
              /\ \A j \in 1..Len(lines) :
                    lines[j].status = s =>
                        lines[j].num = Cardinality({k \in 1..N : Records[k].status = s})
        /\ \A j \in 1..Len(lines) : lines[j].status \in occurring
        /\ Sum([j \in 1..Len(lines) |-> lines[j].num]) = N

\* A completed report of records with two statuses, one of them repeated.
C8_Witness ==
    /\ pc = "done"
    /\ N >= 3
    /\ Len(OutOf("status")) = 2
    /\ OutOf("status")[1].num >= 2

\* C10: a file without a discoveries key is reported like one with an empty
\* list: the total is 0, no section is printed, the script does not abort,
\* and the completed report is header, total 0 and footer in both cases.
C10_NoDiscoveriesKey ==
    /\ ~kb.has =>
          /\ discoveries = <<>>
          /\ pc # "aborted"
          /\ OutKinds \cap Sections = {}
          /\ pc # "get" => OutOf("total")[1].num = 0
          /\ pc # "done" => ENABLED ReportNext
    /\ (pc = "done" /\ (~kb.has \/ kb.discoveries = <<>>)) => out = EmptyReport

\* The completed report of a file without a discoveries key.
C10_Witness ==
    /\ ~kb.has
    /\ pc = "done"
    /\ Len(out) = 3
====
